---- MODULE Spec2Model ----
(***************************************************************************)
(* Voice-Extraction-SCD: the two batch scripts that cut a diarized audio   *)
(* file into speaker files.                                                *)
(*   extract_voices.py                  one output file per segment        *)
(*   scd_n_files_and_save_all_voices.py one output file per speaker, the   *)
(*                                      segments of a speaker concatenated *)
(*                                      and appended to an existing file   *)
(* An audio buffer is a sequence of frames; a frame is <<base, k>>, the    *)
(* k-th frame of the source file `base`, so that the origin and the order  *)
(* of every frame on disk can be read off.  A file on disk is a record     *)
(* [ok, data]: ok is whether AudioSegment.from_wav can decode it.          *)
(***************************************************************************)
EXTENDS Integers, Sequences, FiniteSets, TLC

\* ---------------------------------------------------------------- bounds
MaxRuns == 2
MaxSegs == 3
FrameRate == 1

\* turn.start * 1000, turn.end * 1000: seconds to milliseconds
MsPerSec == 1000

\* ---------------------------------------------------------------- inputs
OutDir == "out"

Bases == {"call1", "call1_speaker_A"}

\* os.listdir of the input folder
Listings == {<<"call1">>, <<"call1", "call1_speaker_A">>}

\* length of each source file, in seconds
Seconds == [b \in Bases |-> IF b = "call1" THEN 2 ELSE 1]

\* the segments the diarizer may emit: (start, end) in seconds and a label
SegSet ==
    { [start |-> 0, end |-> 1, speaker |-> "A"],
      [start |-> 1, end |-> 3, speaker |-> "A"],
      [start |-> 0, end |-> 1, speaker |-> "B"],
      [start |-> 0, end |-> 2, speaker |-> "A_speaker_B"] }

Streams == UNION { [1..k -> SegSet] : k \in 0..MaxSegs }

Range(s) == { s[i] : i \in DOMAIN s }

RECURSIVE SumLen(_, _)
SumLen(f, S) ==
    IF S = {} THEN 0
    ELSE LET b == CHOOSE x \in S : TRUE
         IN  Len(f[b]) + SumLen(f, S \ {b})

Min(a, b) == IF a < b THEN a ELSE b

\* ---------------------------------------------------------------- pydub
\* AudioSegment.from_wav(audio_path) of a readable source file
Audio(base) == [k \in 1..(Seconds[base] * FrameRate) |-> <<base, k>>]

\* len(AudioSegment): the duration in milliseconds
LenMs(aud) == (Len(aud) * MsPerSec) \div FrameRate

\* AudioSegment.frame_count(ms=...)
FrameCount(ms) == (ms * FrameRate) \div MsPerSec

\* a variant that yields nothing for a segment that leaves the source
SliceRejecting(aud, t0, t1) ==
    IF t1 * MsPerSec > LenMs(aud) THEN <<>>
    ELSE SubSeq(aud, FrameCount(t0 * MsPerSec) + 1, FrameCount(t1 * MsPerSec))

\* audio[turn.start * 1000: turn.end * 1000]: AudioSegment.__getitem__ of a
\* slice takes min(start, len(self)) and min(end, len(self)) first
Slice(aud, t0, t1) ==
    LET start == Min(t0 * MsPerSec, LenMs(aud))
        end   == Min(t1 * MsPerSec, LenMs(aud))
    IN  SubSeq(aud, FrameCount(start) + 1, FrameCount(end))

\* a variant that puts the new audio first
CombinedReversed(existing_audio, audio_segment) == audio_segment \o existing_audio

\* combined_audio = existing_audio + audio_segment
Combined(existing_audio, audio_segment) == existing_audio \o audio_segment

\* os.path.exists(speaker_file)
Exists(d, path) == path \in DOMAIN d

\* a variant that reads an undecodable file as empty audio
FromWavLenient(d, path) ==
    IF d[path].ok THEN d[path] ELSE [ok |-> TRUE, data |-> <<>>]

\* AudioSegment.from_wav(speaker_file): ok = FALSE stands for the raised
\* CouldntDecodeError
FromWav(d, path) == d[path]

\* audio.export(path, format="wav"): creates or overwrites the file
Export(d, path, buf) ==
    [p \in DOMAIN d \cup {path} |->
        IF p = path THEN [ok |-> TRUE, data |-> buf] ELSE d[p]]

\* ---------------------------------------------------------------- paths
\* os.path.join(output_folder_path, f"{base_filename}_speaker_{speaker}.wav")
MergePath(base, speaker) ==
    OutDir \o "/" \o base \o "_speaker_" \o speaker \o ".wav"

\* a variant that leaves the segment number out of the name
SegmentPathNoCount(base, speaker, n) ==
    OutDir \o "/" \o base \o "_speaker_" \o speaker \o "_segment" \o ".wav"

\* f"{base_filename}_speaker_{speaker}_segment_{segment_count}.wav"
SegmentPath(base, speaker, n) ==
    OutDir \o "/" \o base \o "_speaker_" \o speaker \o "_segment_"
           \o ToString(n) \o ".wav"

\* ---------------------------------------------------------------- dict
\* speaker_segments is a dict; a Python dict iterates in insertion order, so
\* it is a sequence of [speaker, audio_segment] items
HasKey(ss, speaker) == \E i \in DOMAIN ss : ss[i].speaker = speaker

\* a variant that puts the new slice in front of the speaker's audio
AddSegmentInFront(ss, speaker, segment) ==
    LET init == IF HasKey(ss, speaker) THEN ss
                ELSE Append(ss, [speaker |-> speaker, audio_segment |-> <<>>])
    IN  [i \in DOMAIN init |->
            IF init[i].speaker = speaker
            THEN [init[i] EXCEPT !.audio_segment = segment \o @]
            ELSE init[i]]

\* if speaker not in speaker_segments: ... = AudioSegment.empty()
\* speaker_segments[speaker] += segment
AddSegment(ss, speaker, segment) ==
    LET init == IF HasKey(ss, speaker) THEN ss
                ELSE Append(ss, [speaker |-> speaker, audio_segment |-> <<>>])
    IN  [i \in DOMAIN init |->
            IF init[i].speaker = speaker
            THEN [init[i] EXCEPT !.audio_segment = @ \o segment]
            ELSE init[i]]

\* ---------------------------------------------------------------- sort
RECURSIVE Insert(_, _)
Insert(sorted, f) ==
    IF sorted = <<>> THEN <<f>>
    ELSE IF Seconds[f] < Seconds[Head(sorted)] THEN <<f>> \o sorted
    ELSE <<Head(sorted)>> \o Insert(Tail(sorted), f)

\* sorted(files, key=os.path.getsize): stable, ascending; the size of a WAV
\* file grows with its duration
RECURSIVE SortBySize(_)
SortBySize(files) ==
    IF files = <<>> THEN <<>>
    ELSE LET n == Len(files)
         IN  Insert(SortBySize(SubSeq(files, 1, n - 1)), files[n])

\* ---------------------------------------------------------------- state
VARIABLES
    mode,             \* "segment": extract_voices.py, "merge": scd_n_files_...py
    listing,          \* os.listdir(input_folder_path), the .wav files
    diarizer,         \* what pipeline(audio_path) yields for each source file
    unreadable,       \* source files that cannot be decoded
    disk,             \* the output folder: path -> [ok, data]
    run,              \* the script is run for the run-th time
    pc,               \* the statement the script is at
    audio_files,
    fileIdx,          \* position of `for audio_file in audio_files`
    diarization,
    audio,
    segIdx,           \* position of diarization.itertracks
    segment_count,
    speaker_segments,
    persistIdx,       \* position of speaker_segments.items()
    error,            \* the uncaught exception that ended the script
    log,              \* history: every export, in order
    initDisk,         \* history: the output folder before the first run
    passDisk,         \* history: the output folder when the pass began
    runDisks          \* history: the output folder at the end of each run

vars == << mode, listing, diarizer, unreadable, disk, run, pc, audio_files,
           fileIdx, diarization, audio, segIdx, segment_count,
           speaker_segments, persistIdx, error, log, initDisk, passDisk,
           runDisks >>

inputs == << mode, listing, diarizer, unreadable, initDisk >>

NoError == [kind |-> "none", path |-> ""]

OldFile     == [ok |-> TRUE,  data |-> << <<"old", 1>> >>]
CorruptFile == [ok |-> FALSE, data |-> << <<"junk", 1>> >>]

\* a file some earlier program left in the output folder
LeftoverPath(m) ==
    IF m = "merge" THEN MergePath("call1", "A") ELSE SegmentPath("call1", "A", 0)

EmptyDir == [p \in {} |-> OldFile]

InitDisks(m) ==
    { EmptyDir } \cup { [p \in {LeftoverPath(m)} |-> f] : f \in {OldFile, CorruptFile} }

Init ==
    /\ mode \in {"segment", "merge"}
    /\ listing \in Listings
    /\ diarizer \in { f \in [Range(listing) -> Streams] :
                        SumLen(f, Range(listing)) <= MaxSegs }
    /\ unreadable \in { {} } \cup { {b} : b \in Range(listing) }
    /\ disk \in InitDisks(mode)
    /\ unreadable = {} \/ disk = EmptyDir
    /\ run = 1
    /\ pc = "start"
    /\ audio_files = <<>>
    /\ fileIdx = 1
    /\ diarization = <<>>
    /\ audio = <<>>
    /\ segIdx = 1
    /\ segment_count = 0
    /\ speaker_segments = <<>>
    /\ persistIdx = 1
    /\ error = NoError
    /\ log = <<>>
    /\ initDisk = disk
    /\ passDisk = disk
    /\ runDisks = <<>>

audio_file == audio_files[fileIdx]

\* os.path.splitext(audio_file)[0]; a file is named by its base name here
base_filename == audio_file

\* ---------------------------------------------------------------- both scripts
\* os.makedirs, then the listing: sorted by size in extract_voices.py, as
\* listed in scd_n_files_and_save_all_voices.py
Start ==
    /\ pc = "start"
    /\ audio_files' = IF mode = "segment" THEN SortBySize(listing) ELSE listing
    /\ fileIdx' = 1
    /\ pc' = "for_file"
    /\ UNCHANGED << inputs, disk, run, diarization, audio, segIdx,
                    segment_count, speaker_segments, persistIdx, error, log,
                    passDisk, runDisks >>

\* diarization = pipeline(audio_path); no try/except around it
Diarize ==
    /\ pc = "for_file"
    /\ fileIdx <= Len(audio_files)
    /\ passDisk' = disk
    /\ IF audio_file \in unreadable
       THEN /\ pc' = "crashed"
            /\ error' = [kind |-> "pipeline", path |-> audio_file]
            /\ UNCHANGED diarization
       ELSE /\ pc' = "load"
            /\ diarization' = diarizer[audio_file]
            /\ UNCHANGED error
    /\ UNCHANGED << inputs, disk, run, audio_files, fileIdx, audio, segIdx,
                    segment_count, speaker_segments, persistIdx, log, runDisks >>

\* the for loop over audio_files is exhausted: the final print
Finish ==
    /\ pc = "for_file"
    /\ fileIdx > Len(audio_files)
    /\ pc' = "done"
    /\ runDisks' = Append(runDisks, disk)
    /\ UNCHANGED << inputs, disk, run, audio_files, fileIdx, diarization,
                    audio, segIdx, segment_count, speaker_segments,
                    persistIdx, error, log, passDisk >>

\* pbar.update(1)
Update ==
    /\ pc = "update"
    /\ fileIdx' = fileIdx + 1
    /\ pc' = "for_file"
    /\ UNCHANGED << inputs, disk, run, audio_files, diarization, audio,
                    segIdx, segment_count, speaker_segments, persistIdx,
                    error, log, passDisk, runDisks >>

\* the user runs the script again on the same folders
Rerun ==
    /\ pc \in {"done", "crashed"}
    /\ run < MaxRuns
    /\ run' = run + 1
    /\ pc' = "start"
    /\ audio_files' = <<>>
    /\ fileIdx' = 1
    /\ diarization' = <<>>
    /\ audio' = <<>>
    /\ segIdx' = 1
    /\ segment_count' = 0
    /\ speaker_segments' = <<>>
    /\ persistIdx' = 1
    /\ error' = NoError
    /\ runDisks' = IF pc = "crashed" THEN Append(runDisks, disk) ELSE runDisks
    /\ UNCHANGED << inputs, disk, log, passDisk >>

\* ---------------------------------------------------------------- extract_voices.py
\* audio = AudioSegment.from_wav(audio_path); base_filename; segment_count = 0
EV_Load ==
    /\ pc = "load"
    /\ mode = "segment"
    /\ audio' = Audio(audio_file)
    /\ segment_count' = 0
    /\ segIdx' = 1
    /\ pc' = "segments"
    /\ UNCHANGED << inputs, disk, run, audio_files, fileIdx, diarization,
                    speaker_segments, persistIdx, error, log, passDisk,
                    runDisks >>

\* one iteration of `for turn, _, speaker in diarization.itertracks(...)`
EV_Segment ==
    /\ pc = "segments"
    /\ mode = "segment"
    /\ segIdx <= Len(diarization)
    /\ LET turn         == diarization[segIdx]
           segment      == Slice(audio, turn.start, turn.end)
           speaker_file == SegmentPath(base_filename, turn.speaker, segment_count)
       IN  /\ disk' = Export(disk, speaker_file, segment)
           /\ log' = Append(log, [run |-> run, base |-> base_filename,
                                  speaker |-> turn.speaker,
                                  path |-> speaker_file, buf |-> segment])
    /\ segment_count' = segment_count + 1
    /\ segIdx' = segIdx + 1
    /\ UNCHANGED << inputs, run, pc, audio_files, fileIdx, diarization, audio,
                    speaker_segments, persistIdx, error, passDisk, runDisks >>

\* itertracks is exhausted
EV_EndSegments ==
    /\ pc = "segments"
    /\ mode = "segment"
    /\ segIdx > Len(diarization)
    /\ pc' = "update"
    /\ UNCHANGED << inputs, disk, run, audio_files, fileIdx, diarization,
                    audio, segIdx, segment_count, speaker_segments,
                    persistIdx, error, log, passDisk, runDisks >>

\* ---------------------------------------------------------------- scd_n_files_and_save_all_voices.py
\* a variant whose dict outlives the file
SCD_LoadKeepsSegments ==
    /\ pc = "load"
    /\ mode = "merge"
    /\ audio' = Audio(audio_file)
    /\ segIdx' = 1
    /\ pc' = "segments"
    /\ UNCHANGED << inputs, disk, run, audio_files, fileIdx, diarization,
                    segment_count, speaker_segments, persistIdx, error, log,
                    passDisk, runDisks >>

\* audio = AudioSegment.from_wav(audio_path); speaker_segments = {}
SCD_Load ==
    /\ pc = "load"
    /\ mode = "merge"
    /\ audio' = Audio(audio_file)
    /\ speaker_segments' = <<>>
    /\ segIdx' = 1
    /\ pc' = "segments"
    /\ UNCHANGED << inputs, disk, run, audio_files, fileIdx, diarization,
                    segment_count, persistIdx, error, log, passDisk, runDisks >>

\* a variant that also writes the speaker's file as soon as it has a slice
SCD_SegmentWritesEarly ==
    /\ pc = "segments"
    /\ mode = "merge"
    /\ segIdx <= Len(diarization)
    /\ LET turn    == diarization[segIdx]
           segment == Slice(audio, turn.start, turn.end)
       IN  /\ speaker_segments' = AddSegment(speaker_segments, turn.speaker, segment)
           /\ disk' = Export(disk, MergePath(base_filename, turn.speaker), segment)
    /\ segIdx' = segIdx + 1
    /\ UNCHANGED << inputs, run, pc, audio_files, fileIdx, diarization,
                    audio, segment_count, persistIdx, error, log, passDisk,
                    runDisks >>

\* one iteration of the grouping loop
SCD_Segment ==
    /\ pc = "segments"
    /\ mode = "merge"
    /\ segIdx <= Len(diarization)
    /\ LET turn    == diarization[segIdx]
           segment == Slice(audio, turn.start, turn.end)
       IN  speaker_segments' = AddSegment(speaker_segments, turn.speaker, segment)
    /\ segIdx' = segIdx + 1
    /\ UNCHANGED << inputs, disk, run, pc, audio_files, fileIdx, diarization,
                    audio, segment_count, persistIdx, error, log, passDisk,
                    runDisks >>

\* itertracks is exhausted: base_filename, then speaker_segments.items()
SCD_EndSegments ==
    /\ pc = "segments"
    /\ mode = "merge"
    /\ segIdx > Len(diarization)
    /\ persistIdx' = 1
    /\ pc' = "persist"
    /\ UNCHANGED << inputs, disk, run, audio_files, fileIdx, diarization,
                    audio, segIdx, segment_count, speaker_segments, error,
                    log, passDisk, runDisks >>

\* one iteration of `for speaker, audio_segment in speaker_segments.items()`
SCD_Persist ==
    /\ pc = "persist"
    /\ mode = "merge"
    /\ persistIdx <= Len(speaker_segments)
    /\ LET speaker       == speaker_segments[persistIdx].speaker
           audio_segment == speaker_segments[persistIdx].audio_segment
           speaker_file  == MergePath(base_filename, speaker)
           event(buf)    == [run |-> run, base |-> base_filename,
                             speaker |-> speaker, path |-> speaker_file,
                             buf |-> buf]
       IN  IF ~Exists(disk, speaker_file)
           THEN /\ disk' = Export(disk, speaker_file, audio_segment)
                /\ log' = Append(log, event(audio_segment))
                /\ persistIdx' = persistIdx + 1
                /\ UNCHANGED << pc, error >>
           ELSE LET existing_audio == FromWav(disk, speaker_file)
                IN  IF ~existing_audio.ok
                    THEN /\ pc' = "crashed"
                         /\ error' = [kind |-> "from_wav", path |-> speaker_file]
                         /\ UNCHANGED << disk, log, persistIdx >>
                    ELSE /\ disk' = Export(disk, speaker_file,
                                           Combined(existing_audio.data, audio_segment))
                         /\ log' = Append(log, event(audio_segment))
                         /\ persistIdx' = persistIdx + 1
                         /\ UNCHANGED << pc, error >>
    /\ UNCHANGED << inputs, run, audio_files, fileIdx, diarization, audio,
                    segIdx, segment_count, speaker_segments, passDisk, runDisks >>

\* speaker_segments.items() is exhausted
SCD_EndPersist ==
    /\ pc = "persist"
    /\ mode = "merge"
    /\ persistIdx > Len(speaker_segments)
    /\ pc' = "update"
    /\ UNCHANGED << inputs, disk, run, audio_files, fileIdx, diarization,
                    audio, segIdx, segment_count, speaker_segments,
                    persistIdx, error, log, passDisk, runDisks >>

Next ==
    \/ Start
    \/ Diarize
    \/ Finish
    \/ Update
    \/ Rerun
    \/ EV_Load
    \/ EV_Segment
    \/ EV_EndSegments
    \/ SCD_Load
    \/ SCD_Segment
    \/ SCD_EndSegments
    \/ SCD_Persist
    \/ SCD_EndPersist

Spec == Init /\ [][Next]_vars

\* ---------------------------------------------------------------- properties
RECURSIVE Flatten(_)
Flatten(bufs) == IF bufs = <<>> THEN <<>> ELSE Head(bufs) \o Flatten(Tail(bufs))

\* the buffers exported to `path`, in call order
Written(path) ==
    LET To(e) == e.path = path
        es    == SelectSeq(log, To)
    IN  [i \in DOMAIN es |-> es[i].buf]

InitData(path) == IF path \in DOMAIN initDisk THEN initDisk[path].data ELSE <<>>

InPass == pc \in {"segments", "persist", "update"}

\* the segments the loop has consumed so far
Emitted == SubSeq(diarization, 1, segIdx - 1)

LabelsOf(stream) == { stream[i].speaker : i \in DOMAIN stream }

\* the slices of the segments labelled `speaker`, in emission order
SlicesOf(stream, speaker, aud) ==
    LET Mine(seg) == seg.speaker = speaker
        segs      == SelectSeq(stream, Mine)
    IN  Flatten([i \in DOMAIN segs |-> Slice(aud, segs[i].start, segs[i].end)])

\* the k-th export of the current run for the current source file
EventsOfPass ==
    LET Here(e) == e.run = run /\ e.base = base_filename
    IN  SelectSeq(log, Here)

\* C1: in merge mode the content of an output file that did not exist, or was
\* decodable, before the first run is what it held then followed by every
\* buffer persisted to it, in call order: the first persist of a missing file
\* writes the buffer alone, every later one rewrites existing ++ new.
C1_PersistAppendsInCallOrder ==
    mode = "merge" =>
        \A i \in DOMAIN log :
            LET p == log[i].path
            IN  (p \notin DOMAIN initDisk \/ initDisk[p].ok) =>
                    /\ Exists(disk, p)
                    /\ disk[p] = [ok |-> TRUE,
                                  data |-> InitData(p) \o Flatten(Written(p))]

C1_Witness ==
    /\ mode = "merge"
    /\ \E i, j \in DOMAIN log :
          /\ i < j
          /\ log[i].path = log[j].path
          /\ log[i].base = log[j].base
          /\ log[i].speaker = log[j].speaker
          /\ log[i].path \notin DOMAIN initDisk
          /\ Len(log[i].buf) >= 2

\* C2: in merge mode there is exactly one accumulator per distinct label among
\* the segments consumed so far, and the buffer of a speaker is the
\* concatenation, in emission order, of the slices of the segments with that
\* label and of no other.
C2_OneAccumulatorPerSpeakerInOrder ==
    (mode = "merge" /\ InPass) =>
        /\ { speaker_segments[i].speaker : i \in DOMAIN speaker_segments }
              = LabelsOf(Emitted)
        /\ Len(speaker_segments) = Cardinality(LabelsOf(Emitted))
        /\ \A i \in DOMAIN speaker_segments :
              speaker_segments[i].audio_segment
                 = SlicesOf(Emitted, speaker_segments[i].speaker, audio)

C2_Witness ==
    /\ mode = "merge"
    /\ pc = "persist"
    /\ Len(diarization) = 3
    /\ diarization[1].speaker = diarization[3].speaker
    /\ diarization[1].speaker # diarization[2].speaker
    /\ Len(speaker_segments) = 2
    /\ \E i \in DOMAIN speaker_segments :
          LET a == speaker_segments[i].audio_segment
          IN  Len(a) = 2 /\ a[1] # a[2]

\* the name the i-th segment (from 0) of a source file is to be written to
C3_Name(base, label, i) ==
    OutDir \o "/" \o base \o "_speaker_" \o label \o "_segment_" \o ToString(i) \o ".wav"

\* C3: in per-segment mode segment_count is 0 when a file's loop begins and is
\* the number of segments consumed; after n segments exactly n files have
\* been written for the source, to n different paths, the i-th to the path
\* with the suffix segment_i and that segment's label, holding its slice.
C3_OneFilePerSegment ==
    (mode = "segment" /\ InPass) =>
        LET n == Len(Emitted)
        IN  /\ segment_count = n
            /\ Len(EventsOfPass) = n
            /\ \A i \in 1..n :
                  LET seg == diarization[i]
                      p   == C3_Name(base_filename, seg.speaker, i - 1)
                  IN  /\ EventsOfPass[i].path = p
                      /\ Exists(disk, p)
                      /\ disk[p] = [ok |-> TRUE,
                                    data |-> Slice(audio, seg.start, seg.end)]
            /\ \A i, j \in 1..n :
                  i # j => EventsOfPass[i].path # EventsOfPass[j].path

C3_Witness ==
    /\ mode = "segment"
    /\ pc = "update"
    /\ Len(diarization) = 3
    /\ diarization[1].speaker = diarization[3].speaker
    /\ Slice(audio, diarization[1].start, diarization[1].end)
          # Slice(audio, diarization[3].start, diarization[3].end)

\* C4: two persist calls with different (base_filename, speaker) keys never
\* go to the same output path.
C4_PathInjective ==
    mode = "merge" =>
        \A i, j \in DOMAIN log :
            <<log[i].base, log[i].speaker>> # <<log[j].base, log[j].speaker>>
                => log[i].path # log[j].path

\* C5: in merge mode a persist whose target exists and cannot be decoded ends
\* in the decode error, and the target is left as it was: nothing is ever
\* exported to it, and the loop never moves past it.
C5_UndecodableTargetUntouched ==
    mode = "merge" =>
        /\ \A p \in DOMAIN initDisk :
              ~initDisk[p].ok =>
                  /\ Exists(disk, p) /\ disk[p] = initDisk[p]
                  /\ \A i \in DOMAIN log : log[i].path # p
        /\ pc \in {"persist", "update"} =>
              \A k \in 1..(persistIdx - 1) :
                  disk[MergePath(base_filename, speaker_segments[k].speaker)].ok
        /\ (pc = "crashed" /\ error.kind = "from_wav") =>
              /\ Exists(disk, error.path)
              /\ disk[error.path] = initDisk[error.path]

C5_Witness ==
    /\ mode = "merge"
    /\ pc = "crashed"
    /\ error.kind = "from_wav"
    /\ ~disk[error.path].ok
    /\ speaker_segments[persistIdx].audio_segment # <<>>

\* C6: a failure while one file is processed does not end the batch: the
\* script never stops with files of the list still to come.
C6_FailureDoesNotAbortBatch ==
    ~(pc = "crashed" /\ fileIdx < Len(audio_files))

\* C7: in merge mode the output folder is as it was when the pass began for as
\* long as the pass is loading, slicing and accumulating, and when the pass
\* ends before its segments were read.
C7_NoWriteBeforePassCompletes ==
    mode = "merge" =>
        /\ pc \in {"load", "segments"} => disk = passDisk
        /\ (pc = "crashed" /\ error.kind = "pipeline") => disk = passDisk

C7_Witness ==
    /\ mode = "merge"
    /\ pc = "segments"
    /\ segIdx > Len(diarization)
    /\ \E i \in DOMAIN speaker_segments : speaker_segments[i].audio_segment # <<>>
    /\ fileIdx = 2
    /\ disk # initDisk

\* the segment lies within the source: end <= duration (and so start < duration)
InRange(base, seg) == seg.end <= Seconds[base]

\* the frames of `base` from min(start, duration) to min(end, duration)
ClampedFrames(base, seg) ==
    LET lo == Min(seg.start, Seconds[base]) * FrameRate
        hi == Min(seg.end, Seconds[base]) * FrameRate
    IN  [k \in 1..(hi - lo) |-> <<base, lo + k>>]

ClampedOf(stream, speaker, base) ==
    LET Mine(seg) == seg.speaker = speaker
        segs      == SelectSeq(stream, Mine)
    IN  Flatten([i \in DOMAIN segs |-> ClampedFrames(base, segs[i])])

RECURSIVE Accumulated(_, _)
Accumulated(stream, aud) ==
    IF stream = <<>> THEN <<>>
    ELSE LET n   == Len(stream)
             seg == stream[n]
         IN  AddSegment(Accumulated(SubSeq(stream, 1, n - 1), aud),
                        seg.speaker, Slice(aud, seg.start, seg.end))

\* C8 as stated: a segment that leaves the source is skipped, so the
\* accumulators at the end of the loop are those of the stream without it.
C8_OutOfRangeSkipped ==
    (mode = "merge" /\ pc = "persist") =>
        LET Ok(seg) == InRange(base_filename, seg)
        IN  speaker_segments = Accumulated(SelectSeq(diarization, Ok), audio)

\* C8 as amended: a segment that leaves the source is clamped to it.  It
\* contributes the frames from min(start, duration) to min(end, duration),
\* none when start >= duration, to its speaker's accumulator (merge) or to its
\* own file (per segment), its speaker gets an accumulator, and the loop goes
\* on: no slicing ends the script.
C8_OutOfRangeClamped ==
    /\ (mode = "merge" /\ InPass) =>
          /\ LabelsOf(Emitted)
                = { speaker_segments[i].speaker : i \in DOMAIN speaker_segments }
          /\ \A i \in DOMAIN speaker_segments :
                speaker_segments[i].audio_segment
                   = ClampedOf(Emitted, speaker_segments[i].speaker, base_filename)
    /\ (mode = "segment" /\ InPass) =>
          /\ Len(EventsOfPass) = Len(Emitted)
          /\ \A i \in DOMAIN EventsOfPass :
                EventsOfPass[i].buf = ClampedFrames(base_filename, diarization[i])
    /\ pc = "crashed" => error.kind \in {"pipeline", "from_wav"}

C8_Witness ==
    /\ pc \in {"persist", "update"}
    /\ Len(diarization) >= 2
    /\ ~InRange(base_filename, diarization[1])
    /\ diarization[1].start < Seconds[base_filename]
    /\ InRange(base_filename, diarization[2])

\* C9: in merge mode the dict is empty when a file's loop begins; when the
\* file's persist loop has ended each of its accumulators was persisted
\* exactly once in this pass, with its own buffer; and no buffer ever
\* persisted holds a frame of another source file.
C9_AccumulatorsScopedToFile ==
    mode = "merge" =>
        /\ (pc = "segments" /\ segIdx = 1) => speaker_segments = <<>>
        /\ pc = "update" =>
              /\ Len(EventsOfPass) = Len(speaker_segments)
              /\ \A k \in DOMAIN speaker_segments :
                    /\ EventsOfPass[k].speaker = speaker_segments[k].speaker
                    /\ EventsOfPass[k].buf = speaker_segments[k].audio_segment
              /\ \A k, l \in DOMAIN EventsOfPass :
                    k # l => EventsOfPass[k].speaker # EventsOfPass[l].speaker
        /\ \A i \in DOMAIN log :
              \A k \in DOMAIN log[i].buf : log[i].buf[k][1] = log[i].base

C9_Witness ==
    /\ mode = "merge"
    /\ pc = "update"
    /\ fileIdx = 2
    /\ \E i, j \in DOMAIN log :
          /\ log[i].run = run /\ log[j].run = run
          /\ log[i].base # log[j].base
          /\ log[i].speaker = log[j].speaker
          /\ log[i].buf # <<>> /\ log[j].buf # <<>>

\* C10: after a second complete run on the same inputs, per-segment mode has
\* left the output folder as it was after the first run, and merge mode has
\* left every file persisted in the first run holding what it held before
\* that run followed by its pass buffer twice.
C10_SegmentIdempotentMergeDoubles ==
    (pc = "done" /\ run = 2) =>
        IF mode = "segment"
        THEN disk = runDisks[1]
        ELSE \A i \in DOMAIN log :
                log[i].run = 1 =>
                    disk[log[i].path].data
                       = InitData(log[i].path) \o log[i].buf \o log[i].buf

====
